---- MODULE Spec2Model ----
(***************************************************************************)
(* A model of statify's symbolic executor: the decoder (bytecode.rs), the  *)
(* jumpdest index (analysis.rs), the symbolic stack and memory (data/),    *)
(* the step interpreter and the recursive path explorer (prover.rs).       *)
(*                                                                         *)
(* The recursion of Prover::path is made explicit as a stack of frames;    *)
(* one action is one iteration of a loop of path (or its return).          *)
(***************************************************************************)
EXTENDS Integers, Sequences, FiniteSets, TLC

\* ------------------------------------------------------------------ bounds

\* Longest program, in instructions, of the enumerated part of the inputs.
MaxLen == 3

\* The number of operations applied to a stack that is driven on its own.
MaxStackOps == 1

\* The number of operations applied to a memory that is driven on its own.
MaxMemOps == 3

\* The length of the byte sequences handed to the decoder on its own.
MaxBytes == 3

\* The length of the byte sequences whose selectors are collected.
MaxSelBytes == 5

\* ------------------------------------------------------- program constants

\* data/stack.rs: `if self.data.len() == 16 { return Err(StackOverflow) }`
STACK_LIMIT == 16

\* ---------------------------------------------------------------- opcodes

\* opcodes.rs OPCODE_JUMPMAP: the opcode kind of a byte. PUSH0..PUSH32,
\* DUP1..DUP16 and SWAP1..SWAP16 are one kind each, as the arms of
\* Prover::step group them; their size comes from push_size/dup_size/swap_size.
OpcodeOf(b) ==
    CASE b = 0 -> "Stop"
      [] b = 1 -> "Add"
      [] b = 2 -> "Mul"
      [] b = 3 -> "Sub"
      [] b = 4 -> "Div"
      [] b = 5 -> "Sdiv"
      [] b = 6 -> "Mod"
      [] b = 7 -> "Smod"
      [] b = 8 -> "Addmod"
      [] b = 9 -> "Mulmod"
      [] b = 10 -> "Exp"
      [] b = 11 -> "Signextend"
      [] b = 16 -> "Lt"
      [] b = 17 -> "Gt"
      [] b = 18 -> "Slt"
      [] b = 19 -> "Sgt"
      [] b = 20 -> "Eq"
      [] b = 21 -> "Iszero"
      [] b = 22 -> "And"
      [] b = 23 -> "Or"
      [] b = 24 -> "Xor"
      [] b = 25 -> "Not"
      [] b = 26 -> "Byte"
      [] b = 27 -> "Shl"
      [] b = 28 -> "Shr"
      [] b = 29 -> "Sar"
      [] b = 32 -> "Sha3"
      [] b = 48 -> "Address"
      [] b = 49 -> "Balance"
      [] b = 50 -> "Origin"
      [] b = 51 -> "Caller"
      [] b = 52 -> "Callvalue"
      [] b = 53 -> "Calldataload"
      [] b = 54 -> "Calldatasize"
      [] b = 55 -> "Calldatacopy"
      [] b = 56 -> "Codesize"
      [] b = 57 -> "Codecopy"
      [] b = 58 -> "Gasprice"
      [] b = 59 -> "Extcodesize"
      [] b = 60 -> "Extcodecopy"
      [] b = 61 -> "Returndatasize"
      [] b = 62 -> "Returndatacopy"
      [] b = 63 -> "Extcodehash"
      [] b = 64 -> "Blockhash"
      [] b = 65 -> "Coinbase"
      [] b = 66 -> "Timestamp"
      [] b = 67 -> "Number"
      [] b = 68 -> "Difficulty"
      [] b = 69 -> "Gaslimit"
      [] b = 70 -> "Chainid"
      [] b = 71 -> "Selfbalance"
      [] b = 72 -> "Basefee"
      [] b = 80 -> "Pop"
      [] b = 81 -> "Mload"
      [] b = 82 -> "Mstore"
      [] b = 83 -> "Mstore8"
      [] b = 84 -> "Sload"
      [] b = 85 -> "Sstore"
      [] b = 86 -> "Jump"
      [] b = 87 -> "Jumpi"
      [] b = 88 -> "Pc"
      [] b = 89 -> "Msize"
      [] b = 90 -> "Gas"
      [] b = 91 -> "Jumpdest"
      [] b >= 95 /\ b < 128 -> "Push"
      [] b >= 128 /\ b < 144 -> "Dup"
      [] b >= 144 /\ b < 160 -> "Swap"
      [] b >= 160 /\ b < 165 -> "Log"
      [] b = 240 -> "Create"
      [] b = 241 -> "Call"
      [] b = 242 -> "Callcode"
      [] b = 243 -> "Return"
      [] b = 244 -> "Delegatecall"
      [] b = 245 -> "Create2"
      [] b = 250 -> "Staticcall"
      [] b = 253 -> "Revert"
      [] b = 255 -> "Selfdestruct"
      [] OTHER -> "Invalid"

\* OpCode::is_push / push_size: Some(byte - 95) for a PUSH, None (-1) otherwise.
IsPush(b) == b >= 95 /\ b < 128

IsDup(b) == b >= 128 /\ b < 144

IsSwap(b) == b >= 144 /\ b < 160

\* OpCode::dup_size / swap_size: None is -1.
DupSize(b) == IF IsDup(b) THEN b - 128 + 1 ELSE -1

SwapSize(b) == IF IsSwap(b) THEN b - 144 + 1 ELSE -1

PushSize(b) == IF IsPush(b) THEN b - 95 ELSE -1

\* ---------------------------------------------------------------- decoder

\* A slice that is empty as soon as the range ends past v.
GetSliceStrict(v, start, end) ==
    IF end <= Len(v) THEN SubSeq(v, start + 1, end)
    ELSE <<>>

\* utils.rs get_slice: v[start..end) cut to what v holds (0-based, end exclusive).
GetSlice(v, start, end) ==
    IF end <= Len(v) THEN SubSeq(v, start + 1, end)
    ELSE IF start < Len(v) THEN SubSeq(v, start + 1, Len(v))
    ELSE <<>>

\* bytecode.rs to_mnemonics: the records decoded from pc on.
RECURSIVE ToMnemonicsFrom(_, _)
ToMnemonicsFrom(bytecode, pc) ==
    IF pc >= Len(bytecode) THEN <<>>
    ELSE LET b == bytecode[pc + 1]
             n == PushSize(b)
             pushes == IF n >= 0 THEN GetSlice(bytecode, pc + 1, pc + 1 + n) ELSE <<>>
             npc == IF n >= 0 THEN pc + n ELSE pc
         IN  <<[pc |-> pc, op |-> b, pushes |-> pushes]>>
                 \o ToMnemonicsFrom(bytecode, npc + 1)

ToMnemonics(bytecode) == ToMnemonicsFrom(bytecode, 0)

\* Mnemonic::opcode
Opcode(mn) == OpcodeOf(mn.op)

\* Vec::contains
Contains(v, x) == \E k \in 1..Len(v) : v[k] = x

\* analysis.rs get_jumpdest: the pcs of the JUMPDEST records, in program order.
\* The elements of a set of numbers in ascending order.
RECURSIVE Ascending(_)
Ascending(S) ==
    IF S = {} THEN <<>>
    ELSE LET m == CHOOSE x \in S : \A y \in S : x <= y
         IN  <<m>> \o Ascending(S \ {m})

\* The pcs of every byte 0x5B of the code, those of the immediates included.
GetJumpdestAnyByte(mnemo) ==
    Ascending({mnemo[k].pc : k \in {j \in 1..Len(mnemo) : mnemo[j].op = 91}}
              \cup UNION {{mnemo[k].pc + i :
                              i \in {j \in 1..Len(mnemo[k].pushes) :
                                         mnemo[k].pushes[j] = 91}} :
                          k \in 1..Len(mnemo)})

RECURSIVE GetJumpdest(_)
GetJumpdest(mnemo) ==
    IF mnemo = <<>> THEN <<>>
    ELSE (IF Opcode(Head(mnemo)) = "Jumpdest" THEN <<Head(mnemo).pc>> ELSE <<>>)
             \o GetJumpdest(Tail(mnemo))

\* u32::from_be_bytes of four bytes
FromBeBytes(array) ==
    ((array[1] * 256 + array[2]) * 256 + array[3]) * 256 + array[4]

\* analysis.rs get_selectors: the records whose immediate has 4 bytes, mapped
\* to the big-endian value of these bytes, in order.
RECURSIVE GetSelectors(_)
GetSelectors(mnemo) ==
    IF mnemo = <<>> THEN <<>>
    ELSE (IF Len(Head(mnemo).pushes) = 4 THEN <<FromBeBytes(Head(mnemo).pushes)>>
          ELSE <<>>)
             \o GetSelectors(Tail(mnemo))

\* --------------------------------------------------------- symbolic values

\* A 256-bit z3 term after simplify(): k is its head, v the value of a numeral,
\* a its children. "num" is a numeral (all numerals of the model fit 32 bits),
\* "origin" the application of a function without arguments, "calldata" and
\* "iszero" applications with one child.
Num(n) == [k |-> "num", v |-> n, a |-> <<>>]

OriginTerm == [k |-> "origin", v |-> 0, a |-> <<>>]

CalldataTerm(off) == [k |-> "calldata", v |-> 0, a |-> <<off>>]

\* z3 Ast::is_const: an application without children (a numeral is one too).
IsConstTerm(x) == Len(x.a) = 0

\* z3 BV::as_u64: Some(v) for a numeral, None (-1) for any other term.
AsU64(x) == IF x.k = "num" THEN x.v ELSE -1

\* helpers.rs is_zero, after the simplify() of Stack::push: ite(bv = 0, 1, 0).
IsZeroTerm(x) ==
    IF x.k = "num" THEN (IF x.v = 0 THEN Num(1) ELSE Num(0))
    ELSE [k |-> "iszero", v |-> 0, a |-> <<x>>]

\* Prover::step Eq arm: bool_to_bv(a._eq(b).simplify()), simplified by the push:
\* ite(a = b, 1, 0), a numeral when the equality is decided.
EqTerm(x, y) ==
    IF x = y THEN Num(1)
    ELSE IF x.k = "num" /\ y.k = "num" THEN Num(0)
    ELSE [k |-> "eq", v |-> 0, a |-> <<x, y>>]

\* The numeral 2^256 - n (n >= 1): a word too large for the numbers of the
\* model, written by its distance from 2^256. Neg(1) is the word of all ones.
Neg(n) == [k |-> "neg", v |-> n, a |-> <<>>]

\* An application that simplify() leaves as it is.
App(name, args) == [k |-> name, v |-> 0, a |-> args]

RECURSIVE Pow2(_)
Pow2(e) == IF e = 0 THEN 1 ELSE 2 * Pow2(e - 1)

\* x squared t times, modulo m
RECURSIVE SquaredMod(_, _, _)
SquaredMod(x, t, m) == IF t = 0 THEN x % m ELSE SquaredMod((x * x) % m, t - 1, m)

\* 2^256 modulo m: 2 squared 8 times
WordsMod(m) == SquaredMod(2, 8, m)

\* The value of a numeral modulo m (m > 0).
WordMod(x, m) ==
    IF x.k = "num" THEN x.v % m
    ELSE (WordsMod(m) + m - (x.v % m)) % m

\* The largest shift and factor the numerals of the model are computed for.
SmallShift == 16

\* z3 bvadd of two words, modulo 2^256
BvAdd(x, y) ==
    CASE x.k = "num" /\ y.k = "num" -> Num(x.v + y.v)
      [] x.k = "num" /\ y.k = "neg" -> IF x.v >= y.v THEN Num(x.v - y.v) ELSE Neg(y.v - x.v)
      [] x.k = "neg" /\ y.k = "num" -> IF y.v >= x.v THEN Num(y.v - x.v) ELSE Neg(x.v - y.v)
      [] x.k = "neg" /\ y.k = "neg" -> Neg(x.v + y.v)
      [] OTHER -> App("bvadd", <<x, y>>)

\* z3 bvmul of two words, modulo 2^256
BvMul(x, y) ==
    CASE x = Num(0) \/ y = Num(0) -> Num(0)
      [] x.k = "num" /\ y.k = "num" -> Num(x.v * y.v)
      [] x.k = "num" /\ y.k = "neg" -> Neg(x.v * y.v)
      [] x.k = "neg" /\ y.k = "num" -> Neg(x.v * y.v)
      [] x.k = "neg" /\ y.k = "neg" -> Num(x.v * y.v)
      [] OTHER -> App("bvmul", <<x, y>>)

\* z3 bvudiv: a division by zero is the word of all ones.
BvUDiv(x, y) ==
    CASE y = Num(0) -> Neg(1)
      [] y = Num(1) -> x
      [] x.k = "num" /\ y.k = "num" -> Num(x.v \div y.v)
      [] x.k = "num" /\ y.k = "neg" -> Num(0)
      [] x.k = "neg" /\ y.k = "neg" -> IF x.v <= y.v THEN Num(1) ELSE Num(0)
      [] OTHER -> App("bvudiv", <<x, y>>)

\* z3 bvurem: the remainder of a division by zero is the dividend.
BvURem(x, y) ==
    CASE y = Num(0) -> x
      [] x.k = "num" /\ y.k = "num" -> Num(x.v % y.v)
      [] x.k = "num" /\ y.k = "neg" -> x
      [] x.k = "neg" /\ y.k = "num" -> Num(WordMod(x, y.v))
      [] x.k = "neg" /\ y.k = "neg" -> IF x.v <= y.v THEN Num(y.v - x.v) ELSE x
      [] OTHER -> App("bvurem", <<x, y>>)

\* z3 bvshl: value shifted left by shift, zero from 256 on.
BvShl(value, shift) ==
    CASE shift = Num(0) -> value
      [] shift.k = "neg" \/ (shift.k = "num" /\ shift.v >= 256) -> Num(0)
      [] value.k = "num" /\ shift.k = "num"
             /\ shift.v <= SmallShift /\ value.v <= Pow2(SmallShift - 2) ->
            Num(value.v * Pow2(shift.v))
      [] value.k = "neg" /\ shift.k = "num"
             /\ shift.v <= SmallShift /\ value.v <= Pow2(SmallShift - 2) ->
            Neg(value.v * Pow2(shift.v))
      [] OTHER -> App("bvshl", <<value, shift>>)

\* z3 bvlshr: value shifted right by shift, zeros coming in.
BvLshr(value, shift) ==
    CASE shift = Num(0) -> value
      [] shift.k = "neg" \/ (shift.k = "num" /\ shift.v >= 256) -> Num(0)
      [] value.k = "num" /\ shift.k = "num" ->
            Num(value.v \div Pow2(IF shift.v <= 30 THEN shift.v ELSE 30))
      [] OTHER -> App("bvlshr", <<value, shift>>)

\* z3 bvashr: value shifted right by shift, the sign bit coming in. A Neg(n)
\* of the model has its sign bit set, a Num(n) has it clear.
BvAshr(value, shift) ==
    CASE shift = Num(0) -> value
      [] value.k = "num" /\ shift.k \in {"num", "neg"} -> BvLshr(value, shift)
      [] value.k = "neg" /\ (shift.k = "neg" \/ (shift.k = "num" /\ shift.v >= 256)) ->
            Neg(1)
      [] value.k = "neg" /\ shift.k = "num" /\ shift.v <= 30 ->
            Neg((value.v + Pow2(shift.v) - 1) \div Pow2(shift.v))
      [] OTHER -> App("bvashr", <<value, shift>>)

\* helpers.rs to_bv: the big-endian value of the immediate bytes.
RECURSIVE ToBv(_)
ToBv(val) ==
    IF val = <<>> THEN 0
    ELSE ToBv(SubSeq(val, 1, Len(val) - 1)) * 256 + val[Len(val)]

\* Whether the term can take the value n in some interpretation: a numeral only
\* its own value, ite(_, 1, 0) only 0 and 1, an uninterpreted application any.
CanEqual(x, n) ==
    CASE x.k = "num" -> x.v = n
      [] x.k = "neg" -> FALSE
      [] x.k \in {"iszero", "eq"} -> n \in {0, 1}
      [] OTHER -> TRUE

\* ------------------------------------------------------------------ solver

\* A z3 Solver: its assertion frames, the base frame first.
SolverNew == << {} >>

SolPush(sol) == Append(sol, {})

SolAssert(sol, f) == [sol EXCEPT ![Len(sol)] = @ \cup {f}]

\* A pop that leaves the frame and its assertions on the solver.
SolPopKeep(sol) == sol

SolPop(sol) == SubSeq(sol, 1, Len(sol) - 1)

SolAssertions(sol) == UNION {sol[k] : k \in 1..Len(sol)}

\* prover.rs:552 the formula asserted for a candidate: jd = bv2int(dest).
DestIs(dest, jd) == [dest |-> dest, jd |-> jd]

\* Solver::check on formulas of that shape: each term can take its value, and no
\* term is given two values.
SolCheck(sol) ==
    IF /\ \A f \in SolAssertions(sol) : CanEqual(f.dest, f.jd)
       /\ \A f, g \in SolAssertions(sol) : f.dest = g.dest => f.jd = g.jd
    THEN "Sat" ELSE "Unsat"

\* ------------------------------------------------------------------- stack

\* A push that lets the stack grow one word past its limit.
StackPushLoose(data, value) ==
    IF Len(data) > STACK_LIMIT THEN [e |-> "StackOverflow", data |-> data]
    ELSE [e |-> "ok", data |-> Append(data, value)]

\* Results of the fallible operations: e is "ok", a RevertReason, or "panic"
\* (an unwrap() of None, a todo!()).
StackPush(data, value) ==
    IF Len(data) = STACK_LIMIT THEN [e |-> "StackOverflow", data |-> data]
    ELSE [e |-> "ok", data |-> Append(data, value)]

StackPop(data) ==
    IF data = <<>> THEN [e |-> "StackUnderflow", data |-> data, val |-> Num(0)]
    ELSE [e |-> "ok", data |-> SubSeq(data, 1, Len(data) - 1), val |-> data[Len(data)]]

\* Stack::dupn: the word at index n of data (data.get(n), the bottom is index 0)
\* is pushed.
StackDupn(data, n) ==
    IF n >= Len(data) THEN [e |-> "StackUnderflow", data |-> data]
    ELSE StackPush(data, data[n + 1])

\* Stack::swapn: data.swap(0, n) when data has an index n.
StackSwapn(data, n) ==
    IF n >= Len(data) THEN [e |-> "StackUnderflow", data |-> data]
    ELSE [e |-> "ok",
          data |-> [k \in 1..Len(data) |->
                       IF k = 1 THEN data[n + 1]
                       ELSE IF k = n + 1 THEN data[1]
                       ELSE data[k]]]

\* Stack::get / EVMStack::peek: n = 0 is the top.
StackPeek(data, n) ==
    IF Len(data) < n + 1 THEN [e |-> "StackUnderflow", val |-> Num(0)]
    ELSE [e |-> "ok", val |-> data[Len(data) - n]]

\* EVMStack::pop32: pops; Some(low 32 bits) when the high bits are zero. The
\* as_u64().unwrap() of the extracts panics on a term that is no numeral.
StackPop32(data) ==
    LET p == StackPop(data)
    IN  IF p.e # "ok" THEN [e |-> p.e, data |-> data, n |-> 0]
        ELSE IF p.val.k # "num" THEN [e |-> "panic", data |-> p.data, n |-> 0]
        ELSE [e |-> "ok", data |-> p.data, n |-> p.val.v]

\* ------------------------------------------------------------------ memory

\* Memory.data: None is <<>>; Some(bv) is the bit-vector as its pieces from the
\* low end, each [src, lo, w]: w bits of the term src from its bit lo.
MemoryNew == <<>>

ZeroBits(w) == <<[src |-> Num(0), lo |-> 0, w |-> w]>>

RECURSIVE BvSize(_)
BvSize(bv) == IF bv = <<>> THEN 0 ELSE Head(bv).w + BvSize(Tail(bv))

\* The numeral made of the w bits of the numeral n from its bit lo (numerals of
\* the model are below 2^31).
BitsOf(n, lo, w) ==
    LET sh == IF lo >= 31 THEN 0 ELSE n \div (2 ^ lo)
    IN  IF w >= 31 THEN sh ELSE sh % (2 ^ w)

\* w bits of src from its bit lo, simplified: bits of a numeral are a numeral.
Piece(src, lo, w) ==
    IF src.k = "num" THEN [src |-> Num(BitsOf(src.v, lo, w)), lo |-> 0, w |-> w]
    ELSE [src |-> src, lo |-> lo, w |-> w]

\* z3 extract(high, low) over the pieces.
RECURSIVE BvExtract(_, _, _)
BvExtract(bv, high, low) ==
    IF bv = <<>> \/ high < low THEN <<>>
    ELSE LET p == Head(bv)
         IN  IF low >= p.w THEN BvExtract(Tail(bv), high - p.w, low - p.w)
             ELSE IF high < p.w
                  THEN <<Piece(p.src, p.lo + low, high - low + 1)>>
                  ELSE <<Piece(p.src, p.lo + low, p.w - low)>>
                           \o BvExtract(Tail(bv), high - p.w, 0)

\* The simplified form of a concatenation: adjacent numerals are one numeral
\* (where the model can write it), adjacent extracts of one term one extract.
RECURSIVE BvNorm(_)
BvNorm(bv) ==
    IF Len(bv) < 2 THEN bv
    ELSE LET p == bv[1]
             q == bv[2]
             rest == SubSeq(bv, 3, Len(bv))
         IN  IF p.src.k = "num" /\ q.src.k = "num" /\ q.src.v = 0
             THEN BvNorm(<<[src |-> p.src, lo |-> 0, w |-> p.w + q.w]>> \o rest)
             ELSE IF p.src.k = "num" /\ q.src.k = "num" /\ p.w + q.w < 31
             THEN BvNorm(<<[src |-> Num(p.src.v + q.src.v * (2 ^ p.w)), lo |-> 0,
                            w |-> p.w + q.w]>> \o rest)
             ELSE IF p.src.k # "num" /\ p.src = q.src /\ p.lo + p.w = q.lo
             THEN BvNorm(<<[src |-> p.src, lo |-> p.lo, w |-> p.w + q.w]>> \o rest)
             ELSE <<p>> \o BvNorm(Tail(bv))

\* z3 zero_ext(n): n zero bits above.
BvZeroExt(bv, n) == IF n = 0 THEN bv ELSE BvNorm(bv \o ZeroBits(n))

\* A get that does not widen a memory narrower than the range.
MemoryGetNoExtend(mem, low, high) ==
    IF low = high THEN [mem |-> mem, val |-> ZeroBits(1)]
    ELSE LET data == IF mem = <<>> THEN ZeroBits(high) ELSE mem
         IN  [mem |-> data, val |-> BvNorm(BvExtract(data, high - 1, low))]

\* Memory::get(low..high): [mem |-> the memory after the call, val |-> the bits].
MemoryGet(mem, low, high) ==
    IF low = high THEN [mem |-> mem, val |-> ZeroBits(1)]
    ELSE LET data == IF mem = <<>> THEN ZeroBits(high) ELSE mem
             kept == IF high > BvSize(data) THEN BvZeroExt(data, high - BvSize(data))
                     ELSE data
         IN  [mem |-> kept, val |-> BvNorm(BvExtract(kept, high - 1, low))]

\* z3 concat(high, low): the pieces of low, then those of high.
BvConcat(high, low) == BvNorm(low \o high)

\* The bits of a 256-bit word of the stack.
WordBits(v) == IF v.k = "bits" THEN v.a ELSE <<[src |-> v, lo |-> 0, w |-> 256]>>

\* The 256-bit term that a bit-vector of the memory is on the stack.
BvTerm(bv) ==
    IF Len(bv) = 1 /\ bv[1].lo = 0 /\ bv[1].w = 256 THEN bv[1].src
    ELSE [k |-> "bits", v |-> 0, a |-> bv]

\* Memory::set(offset, words): [e, mem]. `offset - 1` with offset = 0 is an
\* overflow of u32: a panic, or the wrapped bound 2^32 - 1 that z3 refuses for
\* extract; either way the run does not go on ("panic").
MemorySet(mem, offset, words) ==
    IF mem = <<>> THEN [e |-> "ok", mem |-> BvNorm(words)]
    ELSE LET size == BvSize(mem)
             wsize == BvSize(words)
         IN  IF offset > size
             THEN [e |-> "ok",
                   mem |-> BvConcat(BvZeroExt(mem, offset - size), words)]
             ELSE IF offset = 0 THEN [e |-> "panic", mem |-> mem]
             ELSE IF offset + wsize > size
             THEN [e |-> "ok",
                   mem |-> BvConcat(BvExtract(mem, offset - 1, 0), words)]
             ELSE [e |-> "ok",
                   mem |-> BvConcat(BvExtract(mem, offset - 1, 0),
                                    BvConcat(words, BvExtract(mem, size - offset, wsize)))]

\* EVMMemory::mload: [mem, val], val the 256 bits from off.
Mload(mem, off) == MemoryGet(mem, off, off + 256)

\* EVMMemory::mstore: [e, mem].
Mstore(mem, offset, value) == MemorySet(mem, offset, WordBits(value))

\* EVMMemory::mbig_load
MbigLoad(mem, from, to) == MemoryGet(mem, from, to)

\* ------------------------------------------------------- step interpreter

\* prover.rs Ret and its Default
RetDefault == [val |-> <<>>, ret |-> FALSE, rev |-> FALSE]

\* Ret::has_ret
HasRet(r) == r.ret \/ r.rev

\* Prover::ret (prover.rs:432-446): [e, step].
ProverRet(step) ==
    LET len == StackPeek(step.stack, 1)
    IN  IF len.e # "ok" THEN [e |-> len.e, step |-> step]
        ELSE IF len.val = Num(0)
        THEN [e |-> "ok", step |-> [step EXCEPT !.ret.val = <<>>]]
        ELSE IF AsU64(len.val) < 0 THEN [e |-> "panic", step |-> step]
        ELSE LET off == StackPop32(step.stack)
                 p == StackPop(off.data)
                 ld == MbigLoad(step.memory, off.n, off.n + AsU64(len.val))
             IN  IF off.e # "ok" THEN [e |-> off.e, step |-> step]
                 ELSE IF p.e # "ok" THEN [e |-> p.e, step |-> step]
                 ELSE [e |-> "ok",
                       step |-> [step EXCEPT !.stack = p.data, !.memory = ld.mem,
                                             !.ret.val = <<ld.val>>]]

\* The opcodes that have no arm in the match of Prover::step: `op => todo!()`.
TodoOpcodes ==
    {"Exp", "Calldatacopy", "Returndatacopy", "Extcodehash", "Blockhash", "Coinbase",
     "Timestamp", "Number", "Difficulty", "Gaslimit", "Chainid", "Selfbalance",
     "Basefee", "Mstore8", "Sload", "Sstore", "Pc", "Msize", "Gas", "Log", "Create",
     "Call", "Callcode", "Delegatecall", "Create2", "Staticcall", "Selfdestruct"}

\* push of one value on the stack of a step
StepPush(step, value) ==
    LET r == StackPush(step.stack, value)
    IN  [e |-> r.e, step |-> [step EXCEPT !.stack = r.data]]

\* Prover::step (prover.rs:133-430): [e, step], e "ok", a RevertReason or "panic".
ProverStep(last_step, instruction) ==
    LET step == [last_step EXCEPT !.op = instruction]
        opcode == Opcode(instruction)
        a == StackPop(step.stack)
        b == StackPop(a.data)
        n == StackPop(b.data)
    IN  CASE opcode = "Stop" -> [e |-> "ok", step |-> step]
          [] opcode = "Div" ->
                IF a.e # "ok" THEN [e |-> a.e, step |-> step]
                ELSE IF b.e # "ok" THEN [e |-> b.e, step |-> step]
                ELSE StepPush([step EXCEPT !.stack = b.data], BvUDiv(a.val, b.val))
          [] opcode = "Mod" ->
                IF a.e # "ok" THEN [e |-> a.e, step |-> step]
                ELSE IF b.e # "ok" THEN [e |-> b.e, step |-> step]
                ELSE StepPush([step EXCEPT !.stack = b.data], BvURem(a.val, b.val))
          [] opcode = "Addmod" ->
                IF a.e # "ok" THEN [e |-> a.e, step |-> step]
                ELSE IF b.e # "ok" THEN [e |-> b.e, step |-> step]
                ELSE IF n.e # "ok" THEN [e |-> n.e, step |-> step]
                ELSE StepPush([step EXCEPT !.stack = n.data],
                              BvURem(BvAdd(a.val, b.val), n.val))
          [] opcode = "Mulmod" ->
                IF a.e # "ok" THEN [e |-> a.e, step |-> step]
                ELSE IF b.e # "ok" THEN [e |-> b.e, step |-> step]
                ELSE IF n.e # "ok" THEN [e |-> n.e, step |-> step]
                ELSE StepPush([step EXCEPT !.stack = n.data],
                              BvURem(BvMul(a.val, b.val), n.val))
          [] opcode = "Shl" ->
                IF a.e # "ok" THEN [e |-> a.e, step |-> step]
                ELSE IF b.e # "ok" THEN [e |-> b.e, step |-> step]
                ELSE StepPush([step EXCEPT !.stack = b.data], BvShl(b.val, a.val))
          [] opcode = "Shr" ->
                IF a.e # "ok" THEN [e |-> a.e, step |-> step]
                ELSE IF b.e # "ok" THEN [e |-> b.e, step |-> step]
                ELSE StepPush([step EXCEPT !.stack = b.data], BvLshr(b.val, a.val))
          [] opcode = "Sar" ->
                IF a.e # "ok" THEN [e |-> a.e, step |-> step]
                ELSE IF b.e # "ok" THEN [e |-> b.e, step |-> step]
                ELSE StepPush([step EXCEPT !.stack = b.data], BvAshr(a.val, b.val))
          [] opcode = "Iszero" ->
                IF a.e # "ok" THEN [e |-> a.e, step |-> step]
                ELSE StepPush([step EXCEPT !.stack = a.data], IsZeroTerm(a.val))
          [] opcode = "Origin" -> StepPush(step, OriginTerm)
          [] opcode = "Callvalue" -> StepPush(step, Num(0))
          [] opcode = "Calldataload" ->
                IF a.e # "ok" THEN [e |-> a.e, step |-> step]
                ELSE StepPush([step EXCEPT !.stack = a.data], CalldataTerm(a.val))
          [] opcode = "Push" -> StepPush(step, Num(ToBv(instruction.pushes)))
          [] opcode = "Eq" ->
                IF a.e # "ok" THEN [e |-> a.e, step |-> step]
                ELSE IF b.e # "ok" THEN [e |-> b.e, step |-> step]
                ELSE StepPush([step EXCEPT !.stack = b.data], EqTerm(a.val, b.val))
          [] opcode = "Dup" ->
                LET r == StackDupn(step.stack, DupSize(instruction.op) - 1)
                IN  [e |-> r.e, step |-> [step EXCEPT !.stack = r.data]]
          [] opcode = "Swap" ->
                LET r == StackSwapn(step.stack, SwapSize(instruction.op) - 1)
                IN  [e |-> r.e, step |-> [step EXCEPT !.stack = r.data]]
          [] opcode = "Pop" -> [e |-> a.e, step |-> [step EXCEPT !.stack = a.data]]
          [] opcode = "Mload" ->
                LET off == StackPop32(step.stack)
                    r == Mload(step.memory, off.n)
                IN  IF off.e # "ok" THEN [e |-> off.e, step |-> step]
                    ELSE StepPush([step EXCEPT !.stack = off.data, !.memory = r.mem],
                                  BvTerm(r.val))
          [] opcode = "Mstore" ->
                LET off == StackPop32(step.stack)
                    val == StackPop(off.data)
                    r == Mstore(step.memory, off.n, val.val)
                IN  IF off.e # "ok" THEN [e |-> off.e, step |-> step]
                    ELSE IF val.e # "ok" THEN [e |-> val.e, step |-> step]
                    ELSE [e |-> r.e,
                          step |-> [step EXCEPT !.stack = val.data, !.memory = r.mem]]
          [] opcode = "Return" -> ProverRet(step)
          [] opcode = "Revert" ->
                LET r == ProverRet(step)
                IN  IF r.e # "ok" THEN r
                    ELSE [e |-> "ok", step |-> [r.step EXCEPT !.ret.rev = TRUE]]
          [] opcode = "Invalid" -> [e |-> "ok", step |-> [step EXCEPT !.ret.rev = TRUE]]
          [] opcode = "Jumpdest" -> [e |-> "ok", step |-> step]
          [] opcode = "Jump" -> [e |-> a.e, step |-> [step EXCEPT !.stack = a.data]]
          [] opcode = "Jumpi" ->
                IF a.e # "ok" THEN [e |-> a.e, step |-> step]
                ELSE [e |-> b.e, step |-> [step EXCEPT !.stack = b.data]]
          [] opcode \in TodoOpcodes -> [e |-> "panic", step |-> step]

\* ------------------------------------------------------------------ inputs

\* The instructions the enumerated programs are made of, as their bytes: PUSH0,
\* PUSH1 2, PUSH1 3, CALLDATALOAD, JUMP, JUMPI, JUMPDEST, POP, INVALID.
Atoms == {<<95>>, <<96, 2>>, <<96, 3>>, <<53>>, <<86>>, <<87>>, <<91>>, <<80>>, <<254>>}

\* Every program of at most n of these instructions.
RECURSIVE Enumerated(_)
Enumerated(n) ==
    IF n = 0 THEN {<<>>}
    ELSE LET shorter == Enumerated(n - 1)
         IN  shorter \cup {p \o a : p \in shorter, a \in Atoms}

\* The programs of the tests of prover.rs (reverts, jump, jumpi, infinite,
\* dyn_jump, main_reverts) and programs for the cases they leave out.
\* tests::password: PUSH0, CALLDATALOAD, PUSH2 0x1337, EQ, PUSH0, MSTORE,
\* PUSH1 0x20, PUSH0, RETURN
PasswordProgram == <<95, 53, 97, 19, 55, 20, 95, 82, 96, 32, 95, 243>>

TestPrograms ==
    { <<95, 95, 253>>,
      <<95, 53, 86, 254, 91, 96, 1, 91>>,
      <<96, 0, 96, 10, 87, 96, 1, 96, 12, 87, 91, 254, 91, 96, 1>>,
      <<91, 95, 86, 254>>,
      <<95, 53, 96, 6, 86, 254, 91, 0>>,
      <<95, 80, 80>>,
      <<96, 1, 96, 6, 95, 91, 80>>,
      PasswordProgram }

CasePrograms ==
    { \* PUSH1 4, JUMP, INVALID, JUMPDEST, POP, POP: the spawned branch underflows
      <<96, 4, 86, 254, 91, 80, 80>>,
      \* PUSH0, CALLDATALOAD, JUMP, INVALID, JUMPDEST, POP, POP, JUMPDEST:
      \* a symbolic jump whose first candidate underflows
      <<95, 53, 86, 254, 91, 80, 80, 91>>,
      \* JUMPDEST, PUSH0, CALLDATALOAD, ISZERO, JUMP, JUMPDEST: a symbolic
      \* destination that is 0 or 1
      <<91, 95, 53, 21, 86, 91>>,
      \* PUSH0, PUSH0, CALLDATALOAD, JUMPI, INVALID, JUMPDEST: a symbolic
      \* destination under the condition 0
      <<95, 95, 53, 87, 254, 91>>,
      \* PUSH0, ORIGIN, JUMP and PUSH1 1, ORIGIN, JUMP: a destination that is
      \* a constant and no numeral
      <<95, 50, 86>>,
      <<96, 1, 50, 86>>,
      \* PUSH1 1, PUSH0, RETURN, STOP, SLOAD
      <<96, 1, 95, 243, 0, 84>>,
      \* SLOAD alone: an opcode without an arm in step
      <<84>>,
      \* PUSH1 4, JUMP, INVALID, JUMPDEST, PUSH0, CALLDATALOAD, JUMP, JUMPDEST:
      \* a concrete jump into a branch that makes a symbolic one
      <<96, 4, 86, 254, 91, 95, 53, 86, 91>>,
      \* PUSH0 seventeen times: one push more than the stack holds
      [k \in 1..(STACK_LIMIT + 1) |-> 95],
      \* PUSH1 0x5B, PUSH1 1, JUMP: a jump to a 0x5B that is an immediate
      <<96, 91, 96, 1, 86>>,
      \* STOP, PUSH0: an instruction after a STOP
      <<0, 95>>,
      \* PUSH0, CALLDATALOAD, MLOAD: a load at a symbolic offset
      <<95, 53, 81>>,
      \* PUSH0, CALLDATALOAD, PUSH0, RETURN: a symbolic length
      <<95, 53, 95, 243>>,
      \* PUSH0, SLOAD: a load of a key never stored
      <<95, 84>>,
      \* PUSH1 2, PUSH1 3, SSTORE, PUSH1 3, SLOAD
      <<96, 2, 96, 3, 85, 96, 3, 84>>,
      \* PUSH1 9, JUMP, PUSH1 7, JUMP, INVALID, JUMPDEST, INVALID, JUMPDEST,
      \* POP, POP: the branch at 9 underflows, then a branch at 7 is spawned
      <<96, 9, 86, 96, 7, 86, 254, 91, 254, 91, 80, 80>>,
      \* PUSH1 7, JUMP, PUSH1 15, JUMP, INVALID, [7] JUMPDEST, PUSH1 13, JUMP,
      \* POP, POP, [13] JUMPDEST, INVALID, [15] JUMPDEST, PUSH1 20, JUMP,
      \* INVALID, [20] JUMPDEST: the branch at 7 spawns one that reverts and
      \* then underflows; the branch at 15 spawns again
      <<96, 7, 86, 96, 15, 86, 254, 91, 96, 13, 86, 80, 80, 91, 254,
        91, 96, 20, 86, 254, 91>>,
      \* PUSH1 7, JUMP, PUSH1 12, JUMP, INVALID, [7] JUMPDEST, PUSH1 17, JUMP,
      \* INVALID, [12] JUMPDEST, PUSH1 17, JUMP, INVALID, [17] JUMPDEST: the
      \* branches at 7 and at 12, both spawned by the trunk, jump to 17
      <<96, 7, 86, 96, 12, 86, 254, 91, 96, 17, 86, 254, 91, 96, 17, 86, 254, 91>> }

Programs == Enumerated(MaxLen) \cup TestPrograms \cup CasePrograms

\* ---------------------------------------------------------- path explorer

VARIABLES
    code,       \* Prover.code: the decoded program
    tree,       \* the shared Tree: branch-id -> [sol, steps]
    vdest,      \* the visited destinations (the Vec passed down by walk)
    frames,     \* the active calls of Prover::path, the trunk first
    result,     \* "new", "running", then "ok", "err" or "panic"
    error,      \* the RevertReason run returned ("" while there is none)
    spawned,    \* history: one record per call of path made at a JUMP/JUMPI
    stack,      \* Stack.data of a stack driven on its own, the bottom first
    shist,      \* history: the operations applied to that stack
    memory,     \* Memory.data of a memory driven on its own
    mhist,      \* history: the operations applied to that memory
    bytecode,   \* the byte sequence handed to to_mnemonics
    mnemo,      \* [done, code]: what to_mnemonics returned for it
    selectors   \* [done, v]: what get_selectors returned for its records

\* The state of a run of the explorer, and of the parts driven on their own.
pvars == <<code, tree, vdest, frames, result, error, spawned>>

uvars == <<stack, shist, memory, mhist, bytecode, mnemo, selectors>>

vars == <<code, tree, vdest, frames, result, error, spawned,
          stack, shist, memory, mhist, bytecode, mnemo, selectors>>

\* No stack, memory or decoder is driven on its own.
StackIdle == stack = <<>> /\ shist = <<>>

MemoryIdle == memory = <<>> /\ mhist = <<>>

DecoderIdle ==
    /\ bytecode = <<>>
    /\ mnemo = [done |-> FALSE, code |-> <<>>]
    /\ selectors = [done |-> FALSE, v |-> <<>>]

\* No run of the explorer.
ProverIdle ==
    /\ code = <<>>
    /\ tree = <<>>
    /\ vdest = <<>>
    /\ frames = <<>>
    /\ result = "idle"
    /\ error = ""
    /\ spawned = <<>>

\* Prover::walk: `let jdest = get_jumpdest(self.code.to_vec())`
Jdest == GetJumpdest(code)

\* `code.iter().skip_while(|ins| ins.pc < pc)`: the index of the first record kept.
SkipWhile(pc) ==
    IF \E k \in 1..Len(code) : code[k].pc >= pc
    THEN CHOOSE k \in 1..Len(code) :
             /\ code[k].pc >= pc
             /\ \A j \in 1..(k - 1) : code[j].pc < pc
    ELSE Len(code) + 1

\* An entry of path with the step the caller has after the jump: the top of
\* its stack popped.
EnterPathPopped(pid, step, pc, sp) ==
    [pid |-> pid, last_pid |-> pid,
     sol |-> IF pid \in DOMAIN tree THEN tree[pid].sol ELSE SolverNew,
     step |-> [step EXCEPT !.stack = StackPop(@).data],
     i |-> SkipWhile(pc), jdi |-> 1, jdone |-> FALSE, sp |-> sp]

\* prover.rs:505-512 the entry of path: the solver of the branch-id when the
\* tree has it, a new one otherwise; then the loop starts at pc.
EnterPath(pid, step, pc, sp) ==
    [pid |-> pid, last_pid |-> pid,
     sol |-> IF pid \in DOMAIN tree THEN tree[pid].sol ELSE SolverNew,
     step |-> step, i |-> SkipWhile(pc), jdi |-> 1, jdone |-> FALSE, sp |-> sp]

\* A record that starts the list of last_pid anew with every step.
TreeRecordFresh(t, last_pid, sol, step) ==
    [p \in DOMAIN t \cup {last_pid} |->
        IF p # last_pid THEN t[p] ELSE [sol |-> sol, steps |-> <<step>>]]

\* prover.rs:610-618 the step is appended under last_pid with a clone of sol.
TreeRecord(t, last_pid, sol, step) ==
    [p \in DOMAIN t \cup {last_pid} |->
        IF p # last_pid THEN t[p]
        ELSE IF p \in DOMAIN t THEN [sol |-> sol, steps |-> Append(t[p].steps, step)]
        ELSE [sol |-> sol, steps |-> <<step>>]]

\* A return from the call that gives the caller the branch-id -1 of an Err.
AfterCallKeepsErr(parent, p) ==
    [parent EXCEPT !.sol = SolPop(@), !.pid = p]

\* A return from the call after which the frame of the solver is not popped.
AfterCallNoPop(parent, p) ==
    [parent EXCEPT !.pid = IF p >= 0 THEN p ELSE @]

\* prover.rs:569/591 and 572/594: `if let Ok((t, p)) = ... { pid = p }`, then
\* sol.pop(1). p is -1 when the call returned Err.
AfterCall(parent, p) ==
    [parent EXCEPT !.sol = SolPop(@), !.pid = IF p >= 0 THEN p ELSE @]

\* A lookup that finds no destination visited.
VisitedNever(v, d) == FALSE

\* prover.rs:554/575 `vdest.contains(..)`
Visited(v, d) == Contains(v, d)

\* A destination that is not remembered.
MarkVisitedDropped(v, d) == v

\* prover.rs:555/576 `vdest.push(..)`
MarkVisited(v, d) == Append(v, d)

\* Any destination taken for a jumpdest.
IsJumpdestAny(jdest, d) == TRUE

\* prover.rs:578 `jdest.contains(&d)`
IsJumpdest(jdest, d) == Contains(jdest, d)

Top == frames[Len(frames)]

Ins(f) == code[f.i]

IsJump(f) == Opcode(Ins(f)) \in {"Jump", "Jumpi"}

\* prover.rs:520-530 dest and cond of the jump the frame is at.
JumpPeek(f) ==
    LET d == StackPeek(f.step.stack, 0)
        c == IF Opcode(Ins(f)) = "Jumpi" THEN StackPeek(f.step.stack, 1)
             ELSE [e |-> "ok", val |-> Num(1)]
    IN  IF d.e # "ok" THEN [e |-> d.e, dest |-> d.val, cond |-> d.val]
        ELSE [e |-> c.e, dest |-> d.val, cond |-> c.val]

\* A return after which the caller goes on with the step of the call that
\* returned, as if the two shared one step.
LeaveShared(ok, reason) ==
    LET n == Len(frames)
        f == frames[n]
    IN  /\ IF n = 1
           THEN /\ frames' = <<>>
                /\ result' = IF ok THEN "ok" ELSE "err"
                /\ error' = reason
           ELSE /\ frames' = SubSeq(frames, 1, n - 2)
                                 \o <<[AfterCall(frames[n - 1], IF ok THEN f.pid + 1 ELSE -1)
                                           EXCEPT !.step = f.step]>>
                /\ result' = result
                /\ error' = error
        /\ spawned' = IF f.sp = 0 THEN spawned
                      ELSE [spawned EXCEPT ![f.sp].status = IF ok THEN "ok" ELSE "err"]

\* A return whose error the trunk swallows: run answers Ok.
LeaveSwallowed(ok, reason) ==
    LET n == Len(frames)
        f == frames[n]
    IN  /\ IF n = 1
           THEN /\ frames' = <<>>
                /\ result' = "ok"
                /\ error' = ""
           ELSE /\ frames' = SubSeq(frames, 1, n - 2)
                                 \o <<AfterCall(frames[n - 1], IF ok THEN f.pid + 1 ELSE -1)>>
                /\ result' = result
                /\ error' = error
        /\ spawned' = IF f.sp = 0 THEN spawned
                      ELSE [spawned EXCEPT ![f.sp].status = IF ok THEN "ok" ELSE "err"]

\* A return whose error is passed on with `?` by the caller as well.
LeavePropagated(ok, reason) ==
    LET n == Len(frames)
        f == frames[n]
    IN  /\ IF n = 1 \/ ~ok
           THEN /\ frames' = <<>>
                /\ result' = IF ok THEN "ok" ELSE "err"
                /\ error' = reason
           ELSE /\ frames' = SubSeq(frames, 1, n - 2)
                                 \o <<AfterCall(frames[n - 1], f.pid + 1)>>
                /\ result' = result
                /\ error' = error
        /\ spawned' = IF f.sp = 0 THEN spawned
                      ELSE [spawned EXCEPT ![f.sp].status = IF ok THEN "ok" ELSE "err"]

\* The top call returns to its caller: Ok((tree, pid + 1)) or Err(reason). The
\* caller at a JUMP/JUMPI keeps Ok's pid and drops an Err; run returns either.
Leave(ok, reason) ==
    LET n == Len(frames)
        f == frames[n]
    IN  /\ IF n = 1
           THEN /\ frames' = <<>>
                /\ result' = IF ok THEN "ok" ELSE "err"
                /\ error' = reason
           ELSE /\ frames' = SubSeq(frames, 1, n - 2)
                                 \o <<AfterCall(frames[n - 1], IF ok THEN f.pid + 1 ELSE -1)>>
                /\ result' = result
                /\ error' = error
        /\ spawned' = IF f.sp = 0 THEN spawned
                      ELSE [spawned EXCEPT ![f.sp].status = IF ok THEN "ok" ELSE "err"]

\* A panic (unwrap of None, todo!) aborts the run where it stands.
Panic ==
    /\ result' = "panic"
    /\ UNCHANGED <<frames, error, spawned>>

\* The top call spawns path(pid + 1, step.clone(), jd): a new frame, and the
\* history of the call.
Spawn(parent, jd, peek) ==
    /\ frames' = SubSeq(frames, 1, Len(frames) - 1)
                     \o <<parent, EnterPath(parent.pid + 1, parent.step, jd, Len(spawned) + 1)>>
    /\ spawned' = Append(spawned,
                         [pid |-> parent.pid + 1, jd |-> jd, from |-> parent.last_pid,
                          by |-> parent.sp,
                          at |-> Ins(parent).pc, op |-> Opcode(Ins(parent)),
                          dest |-> peek.dest, cond |-> peek.cond,
                          asserted |-> SolAssertions(parent.sol), status |-> "running"])

SetTop(f) == frames' = [frames EXCEPT ![Len(frames)] = f]

Init ==
    /\ code \in {ToMnemonics(b) : b \in Programs}
    /\ tree = <<>>
    /\ vdest = <<>>
    /\ frames = <<>>
    /\ result = "new"
    /\ error = ""
    /\ spawned = <<>>
    /\ StackIdle /\ MemoryIdle /\ DecoderIdle

\* Prover::run / Prover::walk (prover.rs:93-131): the trunk, branch-id 0, from
\* pc 0 with an empty stack and memory. code.first().unwrap() panics on an
\* empty program.
Run ==
    /\ result = "new"
    /\ IF code = <<>>
       THEN /\ result' = "panic"
            /\ frames' = frames
       ELSE /\ result' = "running"
            /\ frames' = <<EnterPath(0, [op |-> code[1], stack |-> <<>>,
                                         memory |-> MemoryNew, ret |-> RetDefault], 0, 0)>>
    /\ UNCHANGED <<code, tree, vdest, error, spawned>>
    /\ UNCHANGED uvars

\* prover.rs:520/527 a peek of the jump fails: path returns the error.
JumpUnderflow ==
    /\ result = "running" /\ frames # <<>>
    /\ Top.i <= Len(code) /\ IsJump(Top) /\ ~Top.jdone
    /\ JumpPeek(Top).e # "ok"
    /\ Leave(FALSE, JumpPeek(Top).e)
    /\ UNCHANGED <<code, tree, vdest>>
    /\ UNCHANGED uvars

\* prover.rs:547-573 a symbolic destination: one turn of `for jd in jdest`
\* (push, assert, check, the recursive call when Sat and not visited, pop), or
\* the end of the loop.
JumpSymbolic ==
    /\ result = "running" /\ frames # <<>>
    /\ Top.i <= Len(code) /\ IsJump(Top) /\ ~Top.jdone
    /\ JumpPeek(Top).e = "ok"
    /\ ~IsConstTerm(JumpPeek(Top).dest)
    /\ LET f == Top
           peek == JumpPeek(f)
       IN  IF f.jdi > Len(Jdest)
           THEN /\ SetTop([f EXCEPT !.jdone = TRUE])
                /\ UNCHANGED <<vdest, spawned>>
           ELSE LET jd == Jdest[f.jdi]
                    sol == SolAssert(SolPush(f.sol), DestIs(peek.dest, jd))
                IN  IF SolCheck(sol) = "Sat" /\ ~Visited(vdest, jd)
                    THEN /\ vdest' = MarkVisited(vdest, jd)
                         /\ Spawn([f EXCEPT !.sol = sol, !.jdi = @ + 1], jd, peek)
                    ELSE /\ SetTop([f EXCEPT !.sol = SolPop(sol), !.jdi = @ + 1])
                         /\ UNCHANGED <<vdest, spawned>>
    /\ UNCHANGED <<code, tree, result, error>>
    /\ UNCHANGED uvars

\* prover.rs:574-598 a destination that is a u64: visited or not, a jumpdest or
\* not; the recursive call for a jumpdest not yet visited.
JumpConcrete ==
    /\ result = "running" /\ frames # <<>>
    /\ Top.i <= Len(code) /\ IsJump(Top) /\ ~Top.jdone
    /\ JumpPeek(Top).e = "ok"
    /\ IsConstTerm(JumpPeek(Top).dest)
    /\ AsU64(JumpPeek(Top).dest) >= 0
    /\ LET f == Top
           peek == JumpPeek(f)
           d == AsU64(peek.dest)
       IN  IF ~Visited(vdest, d)
           THEN /\ vdest' = MarkVisited(vdest, d)
                /\ IF IsJumpdest(Jdest, d)
                   THEN Spawn([f EXCEPT !.sol = SolPush(@), !.jdone = TRUE], d, peek)
                   ELSE /\ SetTop([f EXCEPT !.jdone = TRUE])
                        /\ UNCHANGED spawned
           ELSE /\ SetTop([f EXCEPT !.jdone = TRUE])
                /\ UNCHANGED <<vdest, spawned>>
    /\ UNCHANGED <<code, tree, result, error>>
    /\ UNCHANGED uvars

\* prover.rs:599-602 a constant destination that is no u64: ret() and the
\* revert mark.
JumpOpaque ==
    /\ result = "running" /\ frames # <<>>
    /\ Top.i <= Len(code) /\ IsJump(Top) /\ ~Top.jdone
    /\ JumpPeek(Top).e = "ok"
    /\ IsConstTerm(JumpPeek(Top).dest)
    /\ AsU64(JumpPeek(Top).dest) < 0
    /\ LET f == Top
           r == ProverRet(f.step)
       IN  CASE r.e = "ok" ->
                    /\ SetTop([f EXCEPT !.step = [r.step EXCEPT !.ret.rev = TRUE],
                                        !.jdone = TRUE])
                    /\ UNCHANGED <<result, error, spawned>>
             [] r.e = "panic" -> Panic
             [] OTHER -> Leave(FALSE, r.e)
    /\ UNCHANGED <<code, tree, vdest>>
    /\ UNCHANGED uvars

\* prover.rs:608-623 the instruction is stepped on the current branch ("also
\* keep up with the left branch"), the step is recorded, and the walk breaks
\* when it has returned or reverted. An error of step leaves path.
ExecInstr ==
    /\ result = "running" /\ frames # <<>>
    /\ Top.i <= Len(code)
    /\ IsJump(Top) => Top.jdone
    /\ LET f == Top
           r == ProverStep(f.step, Ins(f))
       IN  CASE r.e = "ok" ->
                    /\ tree' = TreeRecord(tree, f.last_pid, f.sol, r.step)
                    /\ SetTop([f EXCEPT !.step = r.step, !.jdone = FALSE, !.jdi = 1,
                                        !.i = IF HasRet(r.step.ret) THEN Len(code) + 1
                                              ELSE @ + 1])
                    /\ UNCHANGED <<result, error, spawned>>
             [] r.e = "panic" -> Panic /\ UNCHANGED tree
             [] OTHER -> Leave(FALSE, r.e) /\ UNCHANGED tree
    /\ UNCHANGED <<code, vdest>>
    /\ UNCHANGED uvars

\* prover.rs:626-630 the loop is over: Ok((tree, pid + 1)).
PathReturn ==
    /\ result = "running" /\ frames # <<>>
    /\ Top.i > Len(code)
    /\ Leave(TRUE, "")
    /\ UNCHANGED <<code, tree, vdest>>
    /\ UNCHANGED uvars

Next ==
    \/ Run
    \/ JumpUnderflow
    \/ JumpSymbolic
    \/ JumpConcrete
    \/ JumpOpaque
    \/ ExecInstr
    \/ PathReturn

Spec == Init /\ [][Next]_vars

\* The explorer is one synchronous call: a step that can be taken is taken.
FairSpec == Spec /\ WF_vars(Next)

\* -------------------------------------------------- a stack on its own

\* The stacks that n pushes of distinct words build, n up to the limit.
InitialStacks == {[k \in 1..n |-> Num(k)] : n \in 0..STACK_LIMIT}

\* A step of the interpreter on the stack alone.
StackStep(data) ==
    [op |-> [pc |-> 0, op |-> 0, pushes |-> <<>>], stack |-> data,
     memory |-> MemoryNew, ret |-> RetDefault]

StackInit ==
    /\ ProverIdle /\ MemoryIdle /\ DecoderIdle
    /\ stack \in InitialStacks
    /\ shist = <<>>

StackDone(op, n, e, after, val) ==
    /\ Len(shist) < MaxStackOps
    /\ stack' = after
    /\ shist' = Append(shist, [op |-> op, n |-> n, e |-> e, before |-> stack,
                                after |-> after, val |-> val])
    /\ UNCHANGED pvars
    /\ UNCHANGED <<memory, mhist, bytecode, mnemo, selectors>>

\* EVMStack::push
StackDoPush ==
    \E v \in {Num(0)} :
        LET r == StackPush(stack, v)
        IN  StackDone("push", 0, r.e, r.data, v)

\* EVMStack::pop
StackDoPop ==
    LET r == StackPop(stack)
    IN  StackDone("pop", 0, r.e, r.data, r.val)

\* EVMStack::peek
StackDoPeek ==
    \E n \in 0..STACK_LIMIT :
        LET r == StackPeek(stack, n)
        IN  StackDone("peek", n, r.e, stack, r.val)

\* Prover::step on DUPn (the byte 0x7F + n)
StackDoDup ==
    \E n \in 1..16 :
        LET r == ProverStep(StackStep(stack), [pc |-> 0, op |-> 127 + n, pushes |-> <<>>])
        IN  StackDone("dup", n, r.e, r.step.stack, Num(0))

\* Prover::step on SWAPn (the byte 0x8F + n)
StackDoSwap ==
    \E n \in 1..16 :
        LET r == ProverStep(StackStep(stack), [pc |-> 0, op |-> 143 + n, pushes |-> <<>>])
        IN  StackDone("swap", n, r.e, r.step.stack, Num(0))

StackNext ==
    \/ StackDoPush
    \/ StackDoPop
    \/ StackDoPeek
    \/ StackDoDup
    \/ StackDoSwap

StackSpec == StackInit /\ [][StackNext]_vars

\* ------------------------------------------ the arithmetic of a step

\* The words the operands are drawn from: small numerals, the word of all
\* ones and a symbolic word.
ArithWords == {Num(0), Num(1), Num(2), Num(3), Neg(1), OriginTerm}

\* DIV, MOD, ADDMOD, MULMOD, SHL, SHR, SAR
ArithOpcodes == {4, 6, 8, 9, 27, 28, 29}

\* Three operands on the stack, the last one on top.
ArithInit ==
    /\ ProverIdle /\ MemoryIdle /\ DecoderIdle
    /\ stack \in {<<n, b, a>> : n \in ArithWords, b \in ArithWords, a \in ArithWords}
    /\ shist = <<>>

\* Prover::step on one of the opcodes
Arith ==
    /\ shist = <<>>
    /\ \E op \in ArithOpcodes :
          LET r == ProverStep(StackStep(stack), [pc |-> 0, op |-> op, pushes |-> <<>>])
          IN  /\ stack' = r.step.stack
              /\ shist' = <<[op |-> OpcodeOf(op), n |-> 0, e |-> r.e, before |-> stack,
                             after |-> r.step.stack, val |-> Num(0)]>>
    /\ UNCHANGED pvars
    /\ UNCHANGED <<memory, mhist, bytecode, mnemo, selectors>>

ArithNext ==
    \/ Arith

ArithSpec == ArithInit /\ [][ArithNext]_vars

\* ------------------------------------------------- a memory on its own

\* The offsets handed to mstore and mload: 0, inside the first word (1, and
\* 32, the byte offset of the second word), at the width of one word, and
\* beyond it.
MemOffsets == {0, 1, 32, 256, 300}

\* The words stored: two symbolic ones and a numeral.
MemValues == {OriginTerm, CalldataTerm(Num(0)), Num(1)}

MemInit ==
    /\ ProverIdle /\ StackIdle /\ DecoderIdle
    /\ memory = MemoryNew
    /\ mhist = <<>>

\* The calls go on until one of them aborted.
MemCanCall ==
    /\ Len(mhist) < MaxMemOps
    /\ \A k \in 1..Len(mhist) : mhist[k].e = "ok"

\* EVMMemory::mstore
MemDoMstore ==
    /\ MemCanCall
    /\ \E off \in MemOffsets, v \in MemValues :
          LET r == Mstore(memory, off, v)
          IN  /\ memory' = r.mem
              /\ mhist' = Append(mhist, [op |-> "mstore", off |-> off, v |-> v,
                                          e |-> r.e, val |-> <<>>])
    /\ UNCHANGED pvars
    /\ UNCHANGED <<stack, shist, bytecode, mnemo, selectors>>

\* EVMMemory::mload
MemDoMload ==
    /\ MemCanCall
    /\ \E off \in MemOffsets :
          LET r == Mload(memory, off)
          IN  /\ memory' = r.mem
              /\ mhist' = Append(mhist, [op |-> "mload", off |-> off, v |-> Num(0),
                                          e |-> "ok", val |-> r.val])
    /\ UNCHANGED pvars
    /\ UNCHANGED <<stack, shist, bytecode, mnemo, selectors>>

MemNext ==
    \/ MemDoMstore
    \/ MemDoMload

MemSpec == MemInit /\ [][MemNext]_vars

\* ------------------------------------------------ the decoder on its own

\* The bytes of the decoded sequences: STOP, JUMPDEST, PUSH0, PUSH1, PUSH2.
DecodeBytes == {0, 91, 95, 96, 97}

RECURSIVE ByteSeqs(_)
ByteSeqs(n) ==
    IF n = 0 THEN {<<>>}
    ELSE ByteSeqs(n - 1)
             \cup {Append(b, x) : b \in ByteSeqs(n - 1), x \in DecodeBytes}

DecodeInit ==
    /\ ProverIdle /\ StackIdle /\ MemoryIdle
    /\ bytecode \in ByteSeqs(MaxBytes)
    /\ mnemo = [done |-> FALSE, code |-> <<>>]
    /\ selectors = [done |-> FALSE, v |-> <<>>]

\* to_mnemonics(&bytecode)
Decode ==
    /\ ~mnemo.done
    /\ mnemo' = [done |-> TRUE, code |-> ToMnemonics(bytecode)]
    /\ UNCHANGED pvars
    /\ UNCHANGED <<stack, shist, memory, mhist, bytecode, selectors>>

DecodeNext ==
    \/ Decode

DecodeSpec == DecodeInit /\ [][DecodeNext]_vars

\* ------------------------------------------- the selectors of a program

\* The bytes of the programs scanned: two data bytes, PUSH4 and PUSH5.
SelectorBytes == {0, 1, 99, 100}

RECURSIVE SelectorCodes(_)
SelectorCodes(n) ==
    IF n = 0 THEN {<<>>}
    ELSE SelectorCodes(n - 1)
             \cup {Append(b, x) : b \in SelectorCodes(n - 1), x \in SelectorBytes}

SelInit ==
    /\ ProverIdle /\ StackIdle /\ MemoryIdle
    /\ bytecode \in SelectorCodes(MaxSelBytes)
    /\ mnemo = [done |-> FALSE, code |-> <<>>]
    /\ selectors = [done |-> FALSE, v |-> <<>>]

\* analysis.rs tests::weth: to_mnemonics(&bytecode), then get_selectors of it
Selectors ==
    /\ ~selectors.done
    /\ mnemo' = [done |-> TRUE, code |-> ToMnemonics(bytecode)]
    /\ selectors' = [done |-> TRUE, v |-> GetSelectors(ToMnemonics(bytecode))]
    /\ UNCHANGED pvars
    /\ UNCHANGED <<stack, shist, memory, mhist, bytecode>>

SelNext ==
    \/ Selectors

SelSpec == SelInit /\ [][SelNext]_vars

\* ------------------------------------------------------------------ claims

StackErrors == {"StackUnderflow", "StackOverflow"}

\* The RevertReason that the next operation of the call f returns ("" when it
\* returns none): a peek of a jump, the ret() of a jump, or the step.
Raises(f) ==
    IF f.i > Len(code) THEN ""
    ELSE IF IsJump(f) /\ ~f.jdone
    THEN LET peek == JumpPeek(f)
         IN  IF peek.e # "ok" THEN peek.e
             ELSE IF IsConstTerm(peek.dest) /\ AsU64(peek.dest) < 0
                     /\ ProverRet(f.step).e \in StackErrors
             THEN ProverRet(f.step).e
             ELSE ""
    ELSE IF ProverStep(f.step, Ins(f)).e \in StackErrors
    THEN ProverStep(f.step, Ins(f)).e
    ELSE ""

\* C1: run terminates on every program by returning a tree or an error: path
\* is called at a JUMP/JUMPI only finitely often (at most once per JUMPDEST of
\* the program), and the run ends with Ok or Err, also when a jump leads back
\* to a JUMPDEST that was entered before.
C1_RunReturns ==
    /\ [](Len(spawned) <= Len(Jdest))
    /\ <>(result \in {"ok", "err"})

\* C2: the tree never has more branch-ids than the program has JUMPDESTs,
\* plus one.
C2_BranchIdsBounded == Cardinality(DOMAIN tree) <= Len(Jdest) + 1

\* A returned tree that reaches the bound with two JUMPDESTs.
C2_Witness ==
    /\ result = "ok"
    /\ Len(Jdest) = 2
    /\ Cardinality(DOMAIN tree) = 3

\* C3: every call of path made at a JUMP/JUMPI starts at the pc of a JUMPDEST,
\* and the first step under every branch-id other than 0 is a JUMPDEST.
C3_SpawnAtJumpdest ==
    /\ \A k \in 1..Len(spawned) : Contains(Jdest, spawned[k].jd)
    /\ \A p \in DOMAIN tree \ {0} :
          /\ Opcode(tree[p].steps[1].op) = "Jumpdest"
          /\ Contains(Jdest, tree[p].steps[1].op.pc)

\* A returned tree with a branch spawned at a concrete and one at a symbolic
\* destination.
C3_Witness ==
    /\ result = "ok"
    /\ \E k \in 1..Len(spawned) : spawned[k].pid \in DOMAIN tree /\ IsConstTerm(spawned[k].dest)
    /\ \E k \in 1..Len(spawned) : spawned[k].pid \in DOMAIN tree /\ ~IsConstTerm(spawned[k].dest)

C5_SymbolicSpawnsSat ==
    /\ [](\A j, k \in 1..Len(spawned) :
            (j < k /\ spawned[j].by = spawned[k].by /\ spawned[j].at = spawned[k].at)
                => spawned[j].jd < spawned[k].jd)
    /\ [][(/\ result = "running" /\ frames # <<>>
           /\ Top.i <= Len(code) /\ IsJump(Top) /\ ~Top.jdone
           /\ JumpPeek(Top).e = "ok"
           /\ ~IsConstTerm(JumpPeek(Top).dest)
           /\ Top.jdi <= Len(Jdest))
          => LET jd == Jdest[Top.jdi]
                 peek == JumpPeek(Top)
             IN  IF /\ ~Contains(vdest, jd)
                    /\ CanEqual(peek.dest, jd)
                    /\ peek.cond # Num(0)
                 THEN /\ Len(spawned') = Len(spawned) + 1
                      /\ spawned'[Len(spawned')].jd = jd
                      /\ spawned'[Len(spawned')].by = Top.sp
                 ELSE spawned' = spawned]_vars

\* C6: a stack error raised on the trunk is what run returns.
C6_TrunkErrorReturned ==
    [][(result = "running" /\ Len(frames) = 1 /\ Raises(Top) # "")
          => (result' = "err" /\ error' = Raises(Top))]_vars

\* run returned the underflow of the trunk, no call of path made before it.
C6_Witness ==
    /\ result = "err"
    /\ spawned = <<>>
    /\ error = "StackUnderflow"

\* C7: a stack error raised in a spawned call never ends the run with an
\* error: the call is dropped and its caller goes on where it was (same
\* instruction, same candidate position, same step and branch-id counter).
C7_BranchErrorCaught ==
    [][(result = "running" /\ Len(frames) > 1 /\ Raises(Top) # "")
          => LET n == Len(frames)
             IN  /\ result' = "running"
                 /\ error' = ""
                 /\ Len(frames') = n - 1
                 /\ \A k \in 1..(n - 2) : frames'[k] = frames[k]
                 /\ frames'[n - 1].i = frames[n - 1].i
                 /\ frames'[n - 1].jdi = frames[n - 1].jdi
                 /\ frames'[n - 1].jdone = frames[n - 1].jdone
                 /\ frames'[n - 1].step = frames[n - 1].step
                 /\ frames'[n - 1].pid = frames[n - 1].pid]_vars

\* A run that returned Ok although a spawned call raised an error.
C7_Witness ==
    /\ result = "ok"
    /\ \E k \in 1..Len(spawned) : spawned[k].status = "err"

\* C8: a spawned call that raised an error has its branch in the tree, and the
\* last step of the branch is marked reverted.
C8_BranchErrorRecorded ==
    \A k \in 1..Len(spawned) :
        spawned[k].status = "err" =>
            /\ spawned[k].pid \in DOMAIN tree
            /\ tree[spawned[k].pid].steps[Len(tree[spawned[k].pid].steps)].ret.rev

\* C9: no two calls of path made over a run have the same branch-id, and none
\* has the id 0 of the trunk.
C9_FreshBranchIds ==
    \A j, k \in 1..Len(spawned) :
        /\ spawned[k].pid # 0
        /\ j # k => spawned[j].pid # spawned[k].pid

\* C10: the solver stored with a spawned branch holds what was asserted when
\* the branch was spawned.
C10_SolverHoldsSpawnAssertion ==
    \A k \in 1..Len(spawned) :
        spawned[k].pid \in DOMAIN tree =>
            spawned[k].asserted \subseteq SolAssertions(tree[spawned[k].pid].sol)

\* The assertions of the solver leave the term no value but n.
Forces(sol, term, n) ==
    \/ SolCheck(sol) = "Unsat"
    \/ \E f \in SolAssertions(sol) : f.dest = term /\ f.jd = n

\* C11: on the program of the test password run returns a tree with the one
\* branch 0, and the assertions of its solver force calldata(0) = 0x1337.
C11_PasswordConstraint ==
    (code = ToMnemonics(PasswordProgram) /\ result \notin {"new", "running"})
        => /\ result = "ok"
           /\ DOMAIN tree = {0}
           /\ Forces(tree[0].sol, CalldataTerm(Num(0)), 4919)

\* C12: the assertions made for a child never leak. A call of path is made on
\* one new frame of the caller's solver, the return from it pops exactly that
\* frame, and nothing else touches the solver of a call; so a call that has no
\* child running, in particular one that is done with a JUMP/JUMPI, has the
\* solver it entered with: one frame, no assertion.
C12_SolverFramesBalanced ==
    /\ [](\A k \in 1..Len(frames) :
            IF k < Len(frames) THEN Len(frames[k].sol) = 2
            ELSE Len(frames[k].sol) = 1 /\ SolAssertions(frames[k].sol) = {})
    /\ [][LET n == Len(frames)
          IN  /\ (n >= 1 /\ Len(frames') = n + 1) =>
                    /\ Len(frames'[n].sol) = Len(frames[n].sol) + 1
                    /\ SubSeq(frames'[n].sol, 1, Len(frames[n].sol)) = frames[n].sol
              /\ (n >= 2 /\ Len(frames') = n - 1) =>
                    frames'[n - 1].sol
                        = SubSeq(frames[n - 1].sol, 1, Len(frames[n - 1].sol) - 1)
              /\ (n >= 1 /\ Len(frames') = n) => frames'[n].sol = frames[n].sol]_vars

\* A call is done with a symbolic JUMP/JUMPI at which it spawned a child under
\* an assertion.
C12_Witness ==
    /\ result = "running" /\ frames # <<>>
    /\ Top.i <= Len(code) /\ IsJump(Top) /\ Top.jdone
    /\ \E k \in 1..Len(spawned) :
          /\ spawned[k].by = Top.sp
          /\ spawned[k].at = Ins(Top).pc
          /\ spawned[k].asserted # {}
          /\ spawned[k].status # "running"

\* The n-th word of a stack counted from the top (1 is the top).
FromTop(data, n) == data[Len(data) - n + 1]

\* C13: the stack never holds more than STACK_LIMIT words: a push, also the
\* one DUPn makes, on a stack of STACK_LIMIT words returns StackOverflow and
\* leaves the stack as it was.
C13_StackBounded ==
    /\ Len(stack) <= STACK_LIMIT
    /\ \A k \in 1..Len(shist) :
          LET h == shist[k]
          IN  /\ Len(h.after) <= STACK_LIMIT
              /\ (h.op \in {"push", "dup"} /\ Len(h.before) = STACK_LIMIT)
                    => (h.e = "StackOverflow" /\ h.after = h.before)

\* DUP16 met a full stack.
C13_Witness ==
    \E k \in 1..Len(shist) :
        /\ shist[k].op = "dup" /\ shist[k].n = 16
        /\ Len(shist[k].before) = STACK_LIMIT
        /\ shist[k].e = "StackOverflow"

\* C14: pop on an empty stack, peek(n) with n >= len, DUPn on fewer than n
\* words and SWAPn on fewer than n + 1 words return StackUnderflow.
C14_UnderflowReported ==
    \A k \in 1..Len(shist) :
        LET h == shist[k]
            len == Len(h.before)
        IN  /\ (h.op = "pop" /\ len = 0) => h.e = "StackUnderflow"
            /\ (h.op = "peek" /\ h.n >= len) => h.e = "StackUnderflow"
            /\ (h.op = "dup" /\ len < h.n) => h.e = "StackUnderflow"
            /\ (h.op = "swap" /\ len < h.n + 1) => h.e = "StackUnderflow"

\* C15: DUPn on a stack of at least n and fewer than STACK_LIMIT words pushes
\* a copy of the n-th word from the top and leaves the words below in place.
C15_DupFromTop ==
    \A k \in 1..Len(shist) :
        LET h == shist[k]
            len == Len(h.before)
        IN  (h.op = "dup" /\ len >= h.n /\ len < STACK_LIMIT)
                => /\ h.e = "ok"
                   /\ h.after = Append(h.before, FromTop(h.before, h.n))

\* C16: SWAPn on a stack of at least n + 1 words exchanges the top with the
\* (n + 1)-th word from the top and leaves every other word unchanged.
C16_SwapWithTop ==
    \A k \in 1..Len(shist) :
        LET h == shist[k]
            len == Len(h.before)
        IN  (h.op = "swap" /\ len >= h.n + 1)
                => /\ h.e = "ok"
                   /\ Len(h.after) = len
                   /\ \A j \in 1..len :
                         h.after[j] = IF j = len THEN h.before[len - h.n]
                                      ELSE IF j = len - h.n THEN h.before[len]
                                      ELSE h.before[j]

C18_StoreThenLoad ==
    \A k \in 1..Len(mhist) :
        mhist[k].op = "mstore" =>
            /\ mhist[k].e = "ok"
            /\ (k < Len(mhist) /\ mhist[k + 1].op = "mload"
                    /\ mhist[k + 1].off = mhist[k].off)
                  => mhist[k + 1].val = WordBits(mhist[k].v)

\* The bytes the records stand for: each opcode byte, then its immediate.
RECURSIVE Encode(_)
Encode(mn) ==
    IF mn = <<>> THEN <<>>
    ELSE <<Head(mn).op>> \o Head(mn).pushes \o Encode(Tail(mn))

\* The sum of 1 + push_size over the records (push_size of a PUSH only).
RECURSIVE SumPushSizes(_)
SumPushSizes(mn) ==
    IF mn = <<>> THEN 0
    ELSE 1 + (IF IsPush(Head(mn).op) THEN PushSize(Head(mn).op) ELSE 0)
           + SumPushSizes(Tail(mn))

\* The sum of 1 + the number of immediate bytes a record carries.
RECURSIVE SumCarried(_)
SumCarried(mn) ==
    IF mn = <<>> THEN 0
    ELSE 1 + Len(Head(mn).pushes) + SumCarried(Tail(mn))

\* The last PUSH of the records has fewer immediate bytes than its size.
Truncated(mn) ==
    \E k \in 1..Len(mn) : IsPush(mn[k].op) /\ Len(mn[k].pushes) < PushSize(mn[k].op)

\* C19 as stated: the sum of 1 + push_size over the records is |B| and the
\* records encode B byte for byte, for every B.
C19_DecodeLossless ==
    mnemo.done =>
        /\ SumPushSizes(mnemo.code) = Len(bytecode)
        /\ Encode(mnemo.code) = bytecode

\* C19 as amended: the records encode B byte for byte and the sum of 1 + the
\* immediate bytes carried is |B|, for every B; the sum of 1 + push_size is |B|
\* exactly when B does not end inside a PUSH immediate, and the pcs advance by
\* 1 + push_size.
C19_DecodeLosslessCarried ==
    mnemo.done =>
        /\ Encode(mnemo.code) = bytecode
        /\ SumCarried(mnemo.code) = Len(bytecode)
        /\ (SumPushSizes(mnemo.code) = Len(bytecode)) <=> ~Truncated(mnemo.code)
        /\ \A k \in 1..Len(mnemo.code) :
              mnemo.code[k].pc
                  = IF k = 1 THEN 0 ELSE SumPushSizes(SubSeq(mnemo.code, 1, k - 1))

\* A sequence that ends inside the immediate of a PUSH2, one byte of it there.
C19_Witness ==
    /\ mnemo.done
    /\ Truncated(mnemo.code)
    /\ Len(mnemo.code[Len(mnemo.code)].pushes) = 1

\* The n bytes after the opcode at pc, zero where B has ended.
PaddedImmediate(b, pc, n) ==
    [k \in 1..n |-> IF pc + 1 + k <= Len(b) THEN b[pc + 1 + k] ELSE 0]

\* C20: every PUSHn record carries n immediate bytes, the bytes B has and zero
\* for the missing trailing ones, and the word pushed for it is their value.
C20_PushPadded ==
    mnemo.done =>
        \A k \in 1..Len(mnemo.code) :
            LET rec == mnemo.code[k]
                imm == PaddedImmediate(bytecode, rec.pc, PushSize(rec.op))
            IN  IsPush(rec.op) =>
                    /\ Len(rec.pushes) = PushSize(rec.op)
                    /\ ToBv(rec.pushes) = ToBv(imm)

\* The call at the top of frames after a transition that kept its depth.
TopAfter == frames'[Len(frames)]

\* The transition records a step of the top call (prover.rs:609-618).
Recorded == tree' # tree

\* C21: the walk of a branch stops at the first STOP, RETURN, REVERT or INVALID
\* it executes: the step recorded for a STOP or RETURN has ret.ret set, the one
\* for a REVERT or INVALID has ret.rev set, and the walk steps nothing after it.
C21_HaltEndsWalk ==
    [][Recorded =>
          LET opcode == Opcode(Ins(Top))
          IN  /\ opcode \in {"Stop", "Return"} =>
                    TopAfter.step.ret.ret /\ TopAfter.i > Len(code)
              /\ opcode \in {"Revert", "Invalid"} =>
                    TopAfter.step.ret.rev /\ TopAfter.i > Len(code)]_vars

\* The destination of the jump the call f is at is a numeral that is no jumpdest.
IllegalTarget(f) ==
    /\ IsJump(f)
    /\ JumpPeek(f).e = "ok"
    /\ AsU64(JumpPeek(f).dest) >= 0
    /\ ~Contains(Jdest, AsU64(JumpPeek(f).dest))

\* C22: a JUMP or JUMPI whose destination is concrete and no jumpdest marks
\* the path reverted and ends its walk: the step recorded for it has ret.rev
\* set and the walk steps nothing after it.
C22_IllegalTargetReverts ==
    [][(Recorded /\ IllegalTarget(Top)) =>
          TopAfter.step.ret.rev /\ TopAfter.i > Len(code)]_vars

\* The call f is at an instruction that needs a concrete offset or size, its
\* operands are on the stack, and one of them is no numeral.
NeedsConcrete(f) ==
    LET opcode == Opcode(Ins(f))
        off == StackPeek(f.step.stack, 0)
        len == StackPeek(f.step.stack, 1)
    IN  \/ /\ opcode = "Mload"
           /\ off.e = "ok" /\ AsU64(off.val) < 0
        \/ /\ opcode = "Mstore"
           /\ len.e = "ok" /\ AsU64(off.val) < 0
        \/ /\ opcode \in {"Return", "Revert"}
           /\ len.e = "ok"
           /\ AsU64(off.val) < 0 \/ AsU64(len.val) < 0

\* C23: an offset or size that cannot be narrowed to a concrete integer ends
\* the path with a revert; the run does not crash on it.
C23_SymbolicOperandReverts ==
    ~(/\ result = "panic"
      /\ frames # <<>>
      /\ Top.i <= Len(code)
      /\ NeedsConcrete(Top))

\* The stack the k-th step of the trunk's list started from.
StackBefore(steps, k) == IF k = 1 THEN <<>> ELSE steps[k - 1].stack

\* The value of the last SSTORE to key among the steps, the zero word if none.
LastStored(steps, key) ==
    LET at == {k \in 1..Len(steps) :
                  /\ Opcode(steps[k].op) = "Sstore"
                  /\ Len(StackBefore(steps, k)) >= 2
                  /\ StackPeek(StackBefore(steps, k), 0).val = key}
        last == CHOOSE k \in at : \A j \in at : j <= k
    IN  IF at = {} THEN Num(0) ELSE StackPeek(StackBefore(steps, last), 1).val

\* C24: storage is a map from key to value: an SSTORE or SLOAD of the trunk
\* whose operands are on the stack is stepped and recorded, and the SLOAD
\* replaces the key by the value of the last SSTORE to it, zero if there is none.
C24_StorageIsMap ==
    [][(/\ result = "running" /\ Len(frames) = 1
        /\ Top.i <= Len(code)
        /\ \/ Opcode(Ins(Top)) = "Sload" /\ Len(Top.step.stack) >= 1
           \/ Opcode(Ins(Top)) = "Sstore" /\ Len(Top.step.stack) >= 2)
       => /\ Recorded
          /\ Opcode(Ins(Top)) = "Sload" =>
                StackPeek(TopAfter.step.stack, 0).val
                    = LastStored(IF 0 \in DOMAIN tree THEN tree[0].steps ELSE <<>>,
                                 StackPeek(Top.step.stack, 0).val)]_vars

\* The big-endian values of the four-byte immediates of the PUSH4 records.
RECURSIVE Push4Values(_)
Push4Values(mn) ==
    IF mn = <<>> THEN <<>>
    ELSE (IF Head(mn).op = 99 /\ Len(Head(mn).pushes) = 4
          THEN <<FromBeBytes(Head(mn).pushes)>>
          ELSE <<>>)
             \o Push4Values(Tail(mn))

\* C25: get_selectors returns, in program order and with repetitions, exactly
\* the values of the immediates of the PUSH4 records; no record of another
\* opcode contributes one.
C25_SelectorsArePush4 ==
    selectors.done => selectors.v = Push4Values(mnemo.code)

\* The steps recorded under the branch-id p so far.
StepsOf(t, p) == IF p \in DOMAIN t THEN t[p].steps ELSE <<>>

\* C26: once a JUMP or JUMPI is handled and the path is not marked reverted,
\* the walk steps the jump itself (1 operand popped for JUMP, 2 for JUMPI, the
\* memory and ret untouched), appends that step under its own branch-id and
\* goes on with the next instruction, whether or not a branch was spawned.
C26_JumpContinuesLinearly ==
    [][(/\ result = "running" /\ frames # <<>>
        /\ Top.i <= Len(code)
        /\ IsJump(Top) /\ Top.jdone
        /\ ~HasRet(Top.step.ret))
       => LET f == Top
              n == IF Opcode(Ins(f)) = "Jump" THEN 1 ELSE 2
              step == [op |-> Ins(f),
                       stack |-> SubSeq(f.step.stack, 1, Len(f.step.stack) - n),
                       memory |-> f.step.memory,
                       ret |-> f.step.ret]
          IN  /\ result' = "running"
              /\ Len(frames') = Len(frames)
              /\ Len(f.step.stack) >= n
              /\ TopAfter.step = step
              /\ TopAfter.last_pid = f.last_pid
              /\ TopAfter.i = f.i + 1
              /\ StepsOf(tree', f.last_pid) = Append(StepsOf(tree, f.last_pid), step)]_vars

\* A branch recorded a jump at which a call of path was made, and a step
\* after it.
C26_Witness ==
    \E p \in DOMAIN tree :
        \E k \in 1..(Len(tree[p].steps) - 1) :
            /\ Opcode(tree[p].steps[k].op) \in {"Jump", "Jumpi"}
            /\ p > 0
            /\ \E j \in 1..Len(spawned) :
                  spawned[j].from = p /\ spawned[j].at = tree[p].steps[k].op.pc

\* C27: the taken branch and the fall-through evolve independent states:
\* whatever a spawned call of path executes, and however it returns, the step
\* (op, stack, memory, ret) of every call waiting below it stays as it was
\* when the branch was spawned.
C27_BranchesIndependent ==
    [][\A k \in 1..(Len(frames) - 1) :
          k <= Len(frames') => frames'[k].step = frames[k].step]_vars

\* A spawned call has changed the stack it was given, and its caller waits
\* with the stack of the jump.
C27_Witness ==
    /\ Len(frames) >= 2
    /\ Top.step.stack # frames[Len(frames) - 1].step.stack
    /\ spawned[Top.sp].status = "running"

\* C28: in every entry of the tree, at every point of a run, a step whose ret
\* has ret or rev set is the last one of the entry's list.
C28_NothingAfterReturn ==
    \A p \in DOMAIN tree :
        \A k \in 1..Len(tree[p].steps) :
            HasRet(tree[p].steps[k].ret) => k = Len(tree[p].steps)

\* C29: within every branch of the tree the steps are strictly ordered by pc.
C29_StepsAscend ==
    \A p \in DOMAIN tree :
        \A k \in 1..(Len(tree[p].steps) - 1) :
            tree[p].steps[k].op.pc < tree[p].steps[k + 1].op.pc

\* C30: the operands of mstore and mload are byte offsets, a word stored at
\* byte b lying in the bits [8b, 8b + 256): for b1 and b2 at least 32 apart,
\* mstore(b1, v1); mstore(b2, v2); mload(b1) returns v1.
C30_ByteOffsets ==
    \A k \in 1..(Len(mhist) - 2) :
        LET s1 == mhist[k]
            s2 == mhist[k + 1]
            ld == mhist[k + 2]
        IN  (/\ s1.op = "mstore" /\ s2.op = "mstore" /\ ld.op = "mload"
             /\ ld.off = s1.off
             /\ s2.off - s1.off >= 32 \/ s1.off - s2.off >= 32)
            => /\ s1.e = "ok" /\ s2.e = "ok"
               /\ ld.val = WordBits(s1.v)

\* The call appended to mhist by the transition.
MemCall == mhist'[Len(mhist')]

\* C31: a write of wsize bits at the bit offset off that lies inside the
\* memory (off + wsize <= W) is a splice: it succeeds, the width stays W and
\* the bits below off and from off + wsize on keep their values.
C31_WriteInsideIsSplice ==
    [][(/\ Len(mhist') = Len(mhist) + 1
        /\ MemCall.op = "mstore"
        /\ MemCall.off + 256 <= BvSize(memory))
       => LET off == MemCall.off
              W == BvSize(memory)
          IN  /\ MemCall.e = "ok"
              /\ BvSize(memory') = W
              /\ off > 0 =>
                    BvExtract(memory', off - 1, 0) = BvExtract(memory, off - 1, 0)
              /\ off + 256 < W =>
                    BvExtract(memory', W - 1, off + 256)
                        = BvExtract(memory, W - 1, off + 256)]_vars

\* The pc lies inside the immediate of a record of the program.
InImmediate(pc) ==
    \E k \in 1..Len(code) : code[k].pc < pc /\ pc <= code[k].pc + Len(code[k].pushes)

\* C32: get_jumpdest returns, in ascending order, exactly the pcs of the
\* records whose opcode is JUMPDEST; a 0x5B byte inside the immediate of a
\* PUSH is not in the set, and no exploration is spawned at it.
C32_JumpdestsAreOpcodes ==
    /\ \A k \in 1..(Len(Jdest) - 1) : Jdest[k] < Jdest[k + 1]
    /\ {Jdest[k] : k \in 1..Len(Jdest)}
           = {code[k].pc : k \in {j \in 1..Len(code) : code[j].op = 91}}
    /\ \A k \in 1..Len(Jdest) :
          /\ Encode(code)[Jdest[k] + 1] = 91
          /\ ~InImmediate(Jdest[k])
    /\ \A j \in 1..Len(spawned) : ~InImmediate(spawned[j].jd)

\* A run has ended in which a jump went to a 0x5B byte of an immediate: the
\* pc was looked up and no exploration was spawned at it.
C32_Witness ==
    /\ result = "ok"
    /\ \E d \in 0..Len(Encode(code)) - 1 :
          /\ InImmediate(d)
          /\ Encode(code)[d + 1] = 91
          /\ Contains(vdest, d)
          /\ \A j \in 1..Len(spawned) : spawned[j].jd # d

\* The one step of the arithmetic taken, and its operands: a was on top.
ArithDone(op) == shist # <<>> /\ shist[1].op = op

ArithA == shist[1].before[3]

ArithB == shist[1].before[2]

ArithN == shist[1].before[1]

ArithResult == shist[1].after[Len(shist[1].after)]

\* C33: DIV and MOD with a zero divisor push zero, for every dividend: with a
\* on top and 0 below it, the step leaves 0 on top.
C33_DivModByZero ==
    ((ArithDone("Div") \/ ArithDone("Mod")) /\ ArithB = Num(0))
        => shist[1].e = "ok" /\ ArithResult = Num(0)

\* C34: SHL, SHR and SAR take the shift from the top and the value from the
\* second slot and push the value shifted by the shift, SAR keeping the sign.
C34_ShiftOperands ==
    /\ ArithDone("Shl") => ArithResult = BvShl(ArithB, ArithA)
    /\ ArithDone("Shr") => ArithResult = BvLshr(ArithB, ArithA)
    /\ ArithDone("Sar") => ArithResult = BvAshr(ArithB, ArithA)

\* C35: ADDMOD and MULMOD of the numerals a, b and n # 0, popped in this
\* order, push (a + b) mod n and (a * b) mod n of the sum and product that are
\* not cut to 256 bits.
C35_ModOfFullResult ==
    (/\ shist # <<>>
     /\ ArithA.k \in {"num", "neg"} /\ ArithB.k \in {"num", "neg"}
     /\ ArithN.k = "num" /\ ArithN.v > 0)
    => LET m == ArithN.v
       IN  /\ ArithDone("Addmod") =>
                 ArithResult = Num((WordMod(ArithA, m) + WordMod(ArithB, m)) % m)
           /\ ArithDone("Mulmod") =>
                 ArithResult = Num((WordMod(ArithA, m) * WordMod(ArithB, m)) % m)

\* The top call is at an instruction that Prover::step is called on: the loop
\* has not ended and a jump has been through its lookup of the destination.
AtStep(f) ==
    /\ f.i <= Len(code)
    /\ IsJump(f) => f.jdone

\* C36: for every opcode of the table (LOG0..LOG4, CREATE, CALL, CALLCODE,
\* DELEGATECALL, STATICCALL, CREATE2, SELFDESTRUCT, EXP, MSTORE8, SLOAD and
\* SSTORE included) step returns a new step or a RevertReason: the run is never
\* aborted inside step.
C36_StepNeverAborts ==
    ~(/\ result = "panic"
      /\ frames # <<>>
      /\ AtStep(Top)
      /\ ProverStep(Top.step, Ins(Top)).e = "panic")

\* The transition is a call of path made at the JUMP/JUMPI of the top call.
Spawns == frames # <<>> /\ Len(frames') = Len(frames) + 1

\* The number of operands the jump of the call f pops.
JumpOperands(f) == IF Opcode(Ins(f)) = "Jumpi" THEN 2 ELSE 1

\* C37: a spawned exploration starts from a copy of the state its parent has
\* before the JUMP/JUMPI is stepped: it starts at a JUMPDEST, and after the
\* step of that JUMPDEST the destination (and the condition of a JUMPI) are
\* still on its stack; the parent steps the jump afterwards and goes on with
\* them popped.
C37_SpawnCopiesStateBeforeJump ==
    /\ [][Spawns =>
            LET parent == Top
                child == frames'[Len(frames')]
            IN  /\ child.step = parent.step
                /\ TopAfter.step = parent.step
                /\ child.i <= Len(code)
                /\ Opcode(code[child.i]) = "Jumpdest"
                /\ JumpPeek([parent EXCEPT !.step = child.step]) = JumpPeek(parent)]_vars
    /\ [][(Recorded /\ Top.sp # 0 /\ Top.i = SkipWhile(spawned[Top.sp].jd)) =>
            LET call == spawned[Top.sp]
                data == TopAfter.step.stack
            IN  /\ Len(data) >= (IF call.op = "Jumpi" THEN 2 ELSE 1)
                /\ FromTop(data, 1) = call.dest
                /\ call.op = "Jumpi" => FromTop(data, 2) = call.cond]_vars
    /\ [][(Recorded /\ IsJump(Top)) =>
            LET data == Top.step.stack
            IN  TopAfter.step.stack = SubSeq(data, 1, Len(data) - JumpOperands(Top))]_vars

\* C37 witness: the exploration spawned at a JUMPI has stepped its first
\* JUMPDEST with the destination and the condition on its stack, while its
\* parent waits at the JUMPI with the same stack.
C37_Witness ==
    /\ Len(frames) >= 2
    /\ Top.sp # 0
    /\ spawned[Top.sp].op = "Jumpi"
    /\ Top.i = SkipWhile(spawned[Top.sp].jd) + 1
    /\ Len(Top.step.stack) >= 2
    /\ FromTop(Top.step.stack, 1) = spawned[Top.sp].dest
    /\ FromTop(Top.step.stack, 2) = spawned[Top.sp].cond
    /\ frames[Len(frames) - 1].step.stack = Top.step.stack

\* The sequence v starts with the sequence u.
IsPrefix(u, v) == Len(u) <= Len(v) /\ SubSeq(v, 1, Len(u)) = u

\* C38: the visited set is one for the whole run and only grows: no pc is in
\* it twice and none is removed, and no two calls of path made at a JUMP/JUMPI
\* start at the same pc, whichever calls made them.
C38_VisitedOncePerRun ==
    /\ [](/\ \A j, k \in 1..Len(vdest) : vdest[j] = vdest[k] => j = k
          /\ \A j, k \in 1..Len(spawned) : spawned[j].jd = spawned[k].jd => j = k
          /\ \A k \in 1..Len(spawned) : Contains(vdest, spawned[k].jd))
    /\ [][IsPrefix(vdest, vdest')]_vars

\* C38 witness: a call spawned by the trunk is at a jump to a jumpdest that a
\* call spawned by another, finished child of the trunk has explored.
C38_Witness ==
    /\ Len(frames) = 2
    /\ Top.sp # 0
    /\ AtStep(Top) /\ IsJump(Top)
    /\ AsU64(JumpPeek(Top).dest) >= 0
    /\ \E k \in 1..Len(spawned) :
          /\ spawned[k].jd = AsU64(JumpPeek(Top).dest)
          /\ Contains(Jdest, spawned[k].jd)
          /\ spawned[k].status # "running"
          /\ spawned[k].by \notin {0, Top.sp}
          /\ spawned[spawned[k].by].by = 0
          /\ spawned[spawned[k].by].status # "running"

C40_TrunkOwnsIdZero ==
    /\ []((result = "ok" /\ code # <<>>) =>
              0 \in DOMAIN tree /\ Len(tree[0].steps) >= 1)
    /\ [](/\ \A k \in 1..Len(frames) :
                IF k = 1 THEN frames[k].last_pid = 0 /\ frames[k].sp = 0
                ELSE frames[k].last_pid >= 1 /\ frames[k].sp # 0
          /\ \A k \in 1..Len(spawned) : spawned[k].pid >= 1)
    /\ [][(0 \in DOMAIN tree' /\ (0 \in DOMAIN tree => tree'[0] # tree[0])) =>
              Len(frames) = 1 /\ Recorded]_vars

\* C40 witness: run has returned Ok with steps of the trunk under id 0, after
\* an exploration that recorded under its own id and one that returned Err.
C40_Witness ==
    /\ result = "ok"
    /\ 0 \in DOMAIN tree
    /\ Len(tree[0].steps) >= 2
    /\ \E p \in DOMAIN tree : p >= 1
    /\ \E k \in 1..Len(spawned) : spawned[k].status = "err"

=============================================================================
